---- MODULE Spec2Model ----
(***************************************************************************)
(* Smart IPAM: the command-line entry point manage.py and the core it      *)
(* drives.  The commands (create_subnet, allocate_ip, deallocate_ip,       *)
(* discover, check_conflicts) are translated from manage.py.  The managers *)
(* they call (SubnetManager, IPAMManager, DiscoveryEngine) live in the     *)
(* smart_ipam package, which manage.py only imports; they are modelled     *)
(* from the design document (spec.md, sections 3 to 7).                    *)
(***************************************************************************)
EXTENDS Integers, Sequences, FiniteSets, TLC

(***************************************************************************)
(* Bounds of the model.                                                    *)
(***************************************************************************)
MaxSubnets == 2
MaxAllocs == 2
NProcs == 2

Procs == 1..NProcs

(***************************************************************************)
(* Text and option values.  A dotted-quad text is the sequence of its      *)
(* octets, so <<>> is the empty string.  An optional command-line value is *)
(* a record: some = FALSE is Python's None.                                *)
(***************************************************************************)
NoneOpt == [some |-> FALSE, text |-> <<>>]
Some(t) == [some |-> TRUE, text |-> t]
\* Python truthiness of an optional string: None and "" are falsy.
Truthy(o) == o.some /\ o.text # <<>>

NoneStr == "<None>"
NoPrefix == [some |-> FALSE, val |-> 0]
Prefix(n) == [some |-> TRUE, val |-> n]
NoVlan == [some |-> FALSE, val |-> 0]
Vlan(n) == [some |-> TRUE, val |-> n]

(***************************************************************************)
(* ipaddress.ip_network(text, strict=False) for IPv4.                      *)
(***************************************************************************)
AddressBits == 32

\* int(IPv4Address(text)) of a well-formed dotted quad
AddrOf(o) == o[1] * 16777216 + o[2] * 65536 + o[3] * 256 + o[4]

\* str(IPv4Address(a))
IpText(a) ==
    << a \div 16777216, (a \div 65536) % 256, (a \div 256) % 256, a % 256 >>

\* a parser that does not check the range of the octets
MalformedOctetsUnchecked(inp) ==
    \/ Len(inp.octets) # 4
    \/ inp.prefix.some /\ inp.prefix.val \notin 0..AddressBits

\* the inputs ip_network raises ValueError on
Malformed(inp) ==
    \/ Len(inp.octets) # 4
    \/ \E i \in 1..Len(inp.octets) : inp.octets[i] \notin 0..255
    \/ inp.prefix.some /\ inp.prefix.val \notin 0..AddressBits

PrefixLen(inp) == IF inp.prefix.some THEN inp.prefix.val ELSE AddressBits

\* network_obj.num_addresses
NumAddresses(p) == 2 ^ (AddressBits - p)

\* strict=False: the host bits of the address are masked off
NetworkAddress(a, p) == a - (a % NumAddresses(p))

\* the network object: its network address and prefix length
ParseNetwork(inp) ==
    [addr |-> NetworkAddress(AddrOf(inp.octets), PrefixLen(inp)),
     prefix |-> PrefixLen(inp)]

BroadcastAddress(n) == n.addr + NumAddresses(n.prefix) - 1

\* str(network_obj): the normalised CIDR text
NetworkText(n) == [octets |-> IpText(n.addr), prefix |-> Prefix(n.prefix)]

\* network_obj.hosts(): /32 yields the single address, /31 both addresses
Hosts(n) ==
    IF n.prefix >= AddressBits - 1
    THEN n.addr .. BroadcastAddress(n)
    ELSE (n.addr + 1) .. (BroadcastAddress(n) - 1)

SetMin(S) == CHOOSE x \in S : \A y \in S : x <= y

\* a default gateway that is the network address itself
FirstHostIsNetworkAddress(n) == n.addr

\* list(network_obj.hosts())[0]
FirstHost(n) == SetMin(Hosts(n))

\* "Available IPs" row of the subnet table
AvailableIps(n) == NumAddresses(n.prefix) - 2

\* subnet_data['gateway']
GatewayField(gateway, n) ==
    IF Truthy(gateway) THEN gateway.text ELSE IpText(FirstHost(n))

\* description or ''
DescriptionField(description) ==
    IF description = NoneStr THEN "" ELSE description

\* the subnet_data dictionary handed to SubnetManager.create_subnet
SubnetData(n, name, description, vlan, gateway) ==
    [network |-> NetworkText(n),
     name |-> name,
     description |-> DescriptionField(description),
     vlan_id |-> vlan,
     gateway |-> GatewayField(gateway, n)]

(***************************************************************************)
(* State.  subnets and ledger are the persisted records (a record's id is  *)
(* its position); locked holds the subnets whose critical section is       *)
(* occupied; pc, req and picked are the concurrent allocate_ip invocations *)
(* in flight; snapshot is the latest persisted discovery snapshot; scan  *)
(* is the discover invocation; last is the outcome of the last command     *)
(* that ran to its end.                                                    *)
(***************************************************************************)
VARIABLES subnets, ledger, locked, pc, req, picked, snapshot, scan, last

vars == <<subnets, ledger, locked, pc, req, picked, snapshot, scan, last>>

(***************************************************************************)
(* Inputs of the commands.                                                 *)
(***************************************************************************)
Cidr(o, p) == [octets |-> o, prefix |-> p]

WellFormedNetworks ==
    { Cidr(<<10, 0, 0, 0>>, Prefix(24)),
      Cidr(<<10, 0, 0, 0>>, Prefix(29)),
      Cidr(<<10, 0, 0, 5>>, Prefix(30)),
      Cidr(<<10, 0, 0, 2>>, Prefix(31)),
      Cidr(<<10, 0, 0, 9>>, Prefix(32)),
      Cidr(<<10, 0, 0, 9>>, NoPrefix) }

MalformedNetworks ==
    { Cidr(<<10, 0, 0>>, Prefix(24)),
      Cidr(<<10, 0, 0, 256>>, Prefix(24)),
      Cidr(<<10, 0, 0, 0>>, Prefix(33)),
      Cidr(<<>>, NoPrefix) }

NetworkInputs == WellFormedNetworks \cup MalformedNetworks

GatewayInputs == { NoneOpt, Some(<<>>), Some(<<10, 0, 0, 6>>) }
VlanInputs == { NoVlan, Vlan(10) }
NameInputs == { "lan" }
DescriptionInputs == { NoneStr }

(***************************************************************************)
(* SubnetManager (smart_ipam.core.subnet_manager), from the design:        *)
(* subnets are non-overlapping pools, overlap is checked at creation.      *)
(***************************************************************************)
NetOf(s) == ParseNetwork(s.network)

Overlaps(n, m) ==
    n.addr <= BroadcastAddress(m) /\ m.addr <= BroadcastAddress(n)

OverlapsExisting(n, subs) ==
    \E i \in 1..Len(subs) : Overlaps(n, NetOf(subs[i]))

\* SubnetManager.create_subnet(subnet_data): the result dictionary
SubnetManagerCreate(data, subs) ==
    IF OverlapsExisting(ParseNetwork(data.network), subs)
    THEN [success |-> FALSE, subnet_id |-> 0, error |-> "Overlap"]
    ELSE [success |-> TRUE, subnet_id |-> Len(subs) + 1, error |-> ""]

\* the subnet record SubnetManager.create_subnet persists
SubnetRecord(data, id) ==
    [id |-> id, network |-> data.network, name |-> data.name,
     description |-> data.description, vlan_id |-> data.vlan_id,
     gateway |-> data.gateway]

(***************************************************************************)
(* create_subnet command.                                                  *)
(***************************************************************************)
\* what the command leaves behind: exit status, whether the manager was
\* called, and the rows of the table it printed
CreateOutcome(network, exit, called, created, available, gateway) ==
    [cmd |-> "create_subnet", network |-> network, exit |-> exit,
     called |-> called, created |-> created,
     available |-> available, gateway |-> gateway]

\* a command that ends with status 0 whatever the manager answered
CreateSubnetExitAlwaysZero(res) == 0

\* the branch on result.get('success')
CreateSubnetExit(res) == IF res.success THEN 0 ELSE 1

CreateSubnet(network, name, description, vlan, gateway) ==
    IF Malformed(network)
    THEN \* ip_network raises ValueError: the except clause exits with 1
         /\ last' = CreateOutcome(network, 1, FALSE, FALSE, 0, <<>>)
         /\ UNCHANGED <<subnets, ledger, locked, pc, req, picked,
                        snapshot, scan>>
    ELSE LET n == ParseNetwork(network)
             data == SubnetData(n, name, description, vlan, gateway)
             res == SubnetManagerCreate(data, subnets)
         IN  /\ res.success => Len(subnets) < MaxSubnets
             /\ subnets' = IF res.success
                           THEN Append(subnets, SubnetRecord(data, res.subnet_id))
                           ELSE subnets
             /\ last' = IF res.success
                        THEN CreateOutcome(network, CreateSubnetExit(res), TRUE,
                                           TRUE, AvailableIps(n), data.gateway)
                        ELSE CreateOutcome(network, CreateSubnetExit(res), TRUE,
                                           FALSE, 0, <<>>)
             /\ UNCHANGED <<ledger, locked, pc, req, picked,
                            snapshot, scan>>

(***************************************************************************)
(* AddressPool and AllocationLedger (smart_ipam.core.ipam_manager), from   *)
(* the design: sections 4.1 and 4.2.                                       *)
(***************************************************************************)
\* a pool that forgets to exclude the gateway
AllocatableWithGateway(s) ==
    { a \in NetOf(s).addr .. BroadcastAddress(NetOf(s)) :
        a # NetOf(s).addr /\ a # BroadcastAddress(NetOf(s)) }

\* allocatable addresses: the subnet's range without network, broadcast
\* and gateway
Allocatable(s) ==
    { a \in NetOf(s).addr .. BroadcastAddress(NetOf(s)) :
        /\ a # NetOf(s).addr
        /\ a # BroadcastAddress(NetOf(s))
        /\ IpText(a) # s.gateway }

Active(led) == { i \in 1..Len(led) : led[i].status = "active" }

ActiveAddresses(led) == { led[i].address : i \in Active(led) }

\* an address is free when no active allocation holds it
FreeAddresses(s, led) == Allocatable(s) \ ActiveAddresses(led)

\* reserve_next_free: the lowest free address, 0 when exhausted
ReserveNextFree(s, led) ==
    IF FreeAddresses(s, led) = {} THEN 0 ELSE SetMin(FreeAddresses(s, led))

\* reserve_specific: the address when it is free, 0 otherwise
ReserveSpecific(s, led, text) ==
    IF Len(text) = 4 /\ AddrOf(text) \in FreeAddresses(s, led)
    THEN AddrOf(text) ELSE 0

\* the failure of reserve_specific
SpecificError(s, led, text) ==
    IF Len(text) = 4 /\ AddrOf(text) \in Allocatable(s)
    THEN "AlreadyActive" ELSE "NotInSubnet"

\* the subnet a --subnet argument (an id or a CIDR) names, 0 when none
ResolveSubnet(arg, subs) ==
    LET hits == { i \in 1..Len(subs) :
                    \/ arg.kind = "id" /\ subs[i].id = arg.id
                    \/ /\ arg.kind = "cidr"
                       /\ ~Malformed(arg.net)
                       /\ NetworkText(ParseNetwork(arg.net)) = subs[i].network }
    IN  IF hits = {} THEN 0 ELSE SetMin(hits)

\* the explicit address of an allocation request, if it carries one
HasAddress(data) == "ip_address" \in DOMAIN data

\* an allocate that never waits for the critical section
LockIgnored(sid, lk) == TRUE

\* the per-subnet critical section is free
LockFree(sid, lk) == sid \notin lk

\* the pool reservation of allocate: the explicit address when the request
\* carries one, otherwise the next free address
Reserve(s, led, data) ==
    IF HasAddress(data)
    THEN ReserveSpecific(s, led, data.ip_address)
    ELSE ReserveNextFree(s, led)

ReserveError(s, led, data) ==
    IF HasAddress(data)
    THEN SpecificError(s, led, data.ip_address)
    ELSE "Exhausted"

\* the Allocation record the ledger creates
AllocationRecord(id, a, sid, data) ==
    [id |-> id, address |-> a, subnet_id |-> sid,
     hostname |-> data.hostname, device_type |-> data.device_type,
     owner |-> data.owner, description |-> data.description,
     allocation_type |-> data.allocation_type, status |-> "active"]

\* deallocate: the active allocation at the address becomes released
Release(led, i) == [led EXCEPT ![i].status = "released"]

\* find_active: the active allocation at an address text, 0 when none
FindActive(led, text) ==
    LET hits == { i \in Active(led) : IpText(led[i].address) = text }
    IN  IF hits = {} THEN 0 ELSE SetMin(hits)

(***************************************************************************)
(* allocate_ip command.  Every invocation is a process of its own with its *)
(* own IPAMManager and event loop.                                         *)
(***************************************************************************)
SubnetArgs ==
    { [kind |-> "id", id |-> i, net |-> Cidr(<<>>, NoPrefix)] : i \in 1..MaxSubnets }
    \cup { [kind |-> "cidr", id |-> 0, net |-> Cidr(<<10, 0, 0, 1>>, Prefix(29))] }

\* hostname, device type and the --static flag of an invocation
AllocInputs ==
    { [hostname |-> NoneStr, device_type |-> NoneStr, static |-> FALSE],
      [hostname |-> "web1", device_type |-> "server", static |-> TRUE] }

\* device_type or 'unknown'
DeviceTypeField(device_type) ==
    IF device_type = NoneStr \/ device_type = "" THEN "unknown" ELSE device_type

\* 'static' if static else 'dynamic'
AllocationTypeField(static) == IF static THEN "static" ELSE "dynamic"

\* a request that carries an explicit address when --static is given
AllocationDataWithAddress(subnet, hostname, device_type, owner, description, static) ==
    IF static
    THEN [subnet |-> subnet, hostname |-> hostname,
          device_type |-> DeviceTypeField(device_type),
          owner |-> owner, description |-> description,
          allocation_type |-> AllocationTypeField(static),
          ip_address |-> <<10, 0, 0, 3>>]
    ELSE [subnet |-> subnet, hostname |-> hostname,
          device_type |-> DeviceTypeField(device_type),
          owner |-> owner, description |-> description,
          allocation_type |-> AllocationTypeField(static)]

\* the allocation_data dictionary handed to IPAMManager.allocate_ip
AllocationData(subnet, hostname, device_type, owner, description, static) ==
    [subnet |-> subnet, hostname |-> hostname,
     device_type |-> DeviceTypeField(device_type),
     owner |-> owner, description |-> description,
     allocation_type |-> AllocationTypeField(static)]

NoRequest == AllocationData([kind |-> "id", id |-> 0, net |-> Cidr(<<>>, NoPrefix)],
                            NoneStr, NoneStr, NoneStr, NoneStr, FALSE)

\* a command that ends with status 1 whatever the manager answered
AllocateExitAlwaysOne(success) == 1

\* the branch on result.get('success'): exit status of the command
AllocateExit(success) == IF success THEN 0 ELSE 1

\* what the command leaves behind: exit status and the rows of the table
AllocateOutcome(p, sid, success, a, id, error) ==
    [cmd |-> "allocate_ip", proc |-> p, subnet_id |-> sid,
     exit |-> AllocateExit(success),
     ip_address |-> IF success THEN IpText(a) ELSE <<>>,
     allocation_id |-> id, error |-> error]

\* the command builds the request and calls IPAMManager.allocate_ip, which
\* enters the subnet's critical section and reserves from the pool; a
\* failure leaves the section at once and ends the command with status 1
AllocateReserve(p, subnet, in) ==
    /\ pc[p] = "idle"
    /\ LET data == AllocationData(subnet, in.hostname, in.device_type,
                                  NoneStr, NoneStr, in.static)
           sid == ResolveSubnet(data.subnet, subnets)
       IN  IF sid = 0
           THEN /\ last' = AllocateOutcome(p, 0, FALSE, 0, 0, "SubnetNotFound")
                /\ UNCHANGED <<pc, req, picked, locked>>
           ELSE /\ LockFree(sid, locked)
                /\ LET a == Reserve(subnets[sid], ledger, data)
                   IN  IF a = 0
                       THEN /\ last' = AllocateOutcome(p, sid, FALSE, 0, 0,
                                   ReserveError(subnets[sid], ledger, data))
                            /\ UNCHANGED <<pc, req, picked, locked>>
                       ELSE /\ Len(ledger) + Cardinality({q \in Procs : pc[q] = "reserved"})
                                 < MaxAllocs
                            /\ pc' = [pc EXCEPT ![p] = "reserved"]
                            /\ req' = [req EXCEPT ![p] = data]
                            /\ picked' = [picked EXCEPT ![p] = a]
                            /\ locked' = locked \cup {sid}
                            /\ UNCHANGED last
    /\ UNCHANGED <<subnets, ledger, snapshot, scan>>

\* inside allocate: create the ledger record and leave the critical
\* section; the command prints the table and ends with status 0
AllocateRecord(p) ==
    /\ pc[p] = "reserved"
    /\ LET sid == ResolveSubnet(req[p].subnet, subnets)
           id == Len(ledger) + 1
       IN  /\ ledger' = Append(ledger, AllocationRecord(id, picked[p], sid, req[p]))
           /\ locked' = locked \ {sid}
           /\ last' = AllocateOutcome(p, sid, TRUE, picked[p], id, "")
    /\ pc' = [pc EXCEPT ![p] = "idle"]
    /\ req' = [req EXCEPT ![p] = NoRequest]
    /\ picked' = [picked EXCEPT ![p] = 0]
    /\ UNCHANGED <<subnets, snapshot, scan>>

(***************************************************************************)
(* deallocate_ip command.                                                  *)
(***************************************************************************)
AddressInputs == { <<10, 0, 0, 2>>, <<10, 0, 0, 3>>, <<10, 0>> }

\* --force and the answer to click.confirm, which is asked only without
\* --force
ConfirmInputs ==
    { [force |-> TRUE, confirmed |-> FALSE],
      [force |-> FALSE, confirmed |-> TRUE],
      [force |-> FALSE, confirmed |-> FALSE] }

DeallocateOutcome(ip, exit, called, error) ==
    [cmd |-> "deallocate_ip", ip_address |-> ip, exit |-> exit,
     called |-> called, error |-> error]

\* the branch on result.get('success')
DeallocateExit(success) == IF success THEN 0 ELSE 1

\* a command that never asks and goes on to deallocate
CancelledNever(force, confirmed) == FALSE

\* not force and not click.confirm(...): the command returns at once
Cancelled(force, confirmed) == ~force /\ ~confirmed

DeallocateIp(ip, force, confirmed) ==
    IF Cancelled(force, confirmed)
    THEN /\ last' = DeallocateOutcome(ip, 0, FALSE, "")
         /\ UNCHANGED <<subnets, ledger, locked, pc, req, picked,
                        snapshot, scan>>
    ELSE LET i == FindActive(ledger, ip)
         IN  /\ i # 0 => LockFree(ledger[i].subnet_id, locked)
             /\ ledger' = IF i # 0 THEN Release(ledger, i) ELSE ledger
             /\ last' = DeallocateOutcome(ip, DeallocateExit(i # 0), TRUE,
                           IF i # 0 THEN "" ELSE "NotActive")
             /\ UNCHANGED <<subnets, locked, pc, req, picked,
                            snapshot, scan>>

(***************************************************************************)
(* init_database command.  The module binds the name init_database twice:  *)
(* the import of the routine of smart_ipam.utils.database, then the        *)
(* decorated command itself, a click.Command.  The body of the command     *)
(* looks the name up when it runs.                                         *)
(***************************************************************************)
\* the bindings of the module-level name init_database, in source order
InitDatabaseBindings == << "routine", "command" >>

\* a module-level name refers to its latest binding
InitDatabaseName == InitDatabaseBindings[Len(InitDatabaseBindings)]

\* sys.argv[1:] of an invocation that reaches the body of the command
InitArgvInputs == { << "init-database" >> }

InitDatabaseOutcome(calls, raised, success, failure, exit) ==
    [cmd |-> "init_database", routine_calls |-> calls, raised |-> raised,
     success_printed |-> success, failure_printed |-> failure, exit |-> exit]

\* init_database() in the body.  Bound to the routine, the call returns or
\* raises, and the except clause exits with status 1.  Bound to the
\* command, the call is click's Command.main() on sys.argv[1:]: the command
\* declares no parameter, the command name is an unexpected extra argument,
\* and main() exits with status 2 (SystemExit is not an Exception, so the
\* except clause does not see it).
InitDatabaseCall(argv, raises) ==
    IF InitDatabaseName = "routine"
    THEN InitDatabaseOutcome(1, raises, ~raises, raises, IF raises THEN 1 ELSE 0)
    ELSE InitDatabaseOutcome(0, FALSE, FALSE, FALSE, IF Len(argv) > 0 THEN 2 ELSE 1)

InitDatabase(argv, raises) ==
    /\ last' = InitDatabaseCall(argv, raises)
    /\ UNCHANGED <<subnets, ledger, locked, pc, req, picked, snapshot, scan>>

(***************************************************************************)
(* DiscoveryEngine (smart_ipam.core.discovery_engine), from the design:    *)
(* section 4.3.  A scan goes Pending -> Probing -> Aggregating -> Complete *)
(* and fails, from Probing, only on a malformed target.                    *)
(***************************************************************************)
\* the hosts that may answer a probe
Observable == { AddrOf(<<10, 0, 0, 2>>), AddrOf(<<10, 0, 0, 3>>) }

\* subnet, discovery type and --update-database flag of an invocation
DiscoverInputs ==
    { [subnet |-> [some |-> FALSE, net |-> Cidr(<<>>, NoPrefix)],
       discovery_type |-> "full", update_database |-> TRUE],
      [subnet |-> [some |-> TRUE, net |-> Cidr(<<10, 0, 0, 0>>, Prefix(29))],
       discovery_type |-> "ping", update_database |-> FALSE],
      [subnet |-> [some |-> TRUE, net |-> Cidr(<<10, 0, 0, 0>>, Prefix(29))],
       discovery_type |-> "arp", update_database |-> TRUE],
      [subnet |-> [some |-> TRUE, net |-> Cidr(<<10, 0, 0, 256>>, Prefix(24))],
       discovery_type |-> "snmp", update_database |-> TRUE] }

\* the discovery_params dictionary handed to DiscoveryEngine.discover_devices
DiscoveryParams(subnet, discovery_type, update_database) ==
    [subnet |-> subnet, discovery_type |-> discovery_type,
     update_database |-> update_database]

NoParams == DiscoveryParams([some |-> FALSE, net |-> Cidr(<<>>, NoPrefix)], "full", FALSE)

IdleScan == [state |-> "Idle", params |-> NoParams, responders |-> {}]

\* InvalidTarget: a target that is given and is not a network
InvalidTarget(params) == params.subnet.some /\ Malformed(params.subnet.net)

\* the addresses a scan probes: the given range, or every known subnet
TargetRange(params, subs) ==
    IF params.subnet.some
    THEN LET n == ParseNetwork(params.subnet.net)
         IN  n.addr .. BroadcastAddress(n)
    ELSE UNION { NetOf(subs[i]).addr .. BroadcastAddress(NetOf(subs[i])) :
                   i \in 1..Len(subs) }

RECURSIVE SortedSeq(_)
\* the elements of a set of numbers in ascending order
SortedSeq(S) ==
    IF S = {} THEN <<>> ELSE <<SetMin(S)>> \o SortedSeq(S \ {SetMin(S)})

\* the device list of a snapshot: one device per responsive address
Devices(responders) ==
    [i \in 1..Cardinality(responders) |->
        [ip_address |-> IpText(SortedSeq(responders)[i]), status |-> "Responsive"]]

\* the result dictionary of discover_devices
DiscoveryResult(sc) ==
    IF sc.state = "Complete"
    THEN [success |-> TRUE, devices |-> Devices(sc.responders), error |-> ""]
    ELSE [success |-> FALSE, devices |-> <<>>, error |-> "InvalidTarget"]

(***************************************************************************)
(* discover command.                                                       *)
(***************************************************************************)
\* a command that takes a scan without devices for a failure
DiscoverExitEmptyFails(res) == IF res.success /\ res.devices # <<>> THEN 0 ELSE 1

\* the branch on result.get('success')
DiscoverExit(res) == IF res.success THEN 0 ELSE 1

\* len(devices) of "Discovery completed! Found N devices"
DevicesFound(res) == Len(res.devices)

DiscoverOutcome(params, res) ==
    [cmd |-> "discover", params |-> params, exit |-> DiscoverExit(res),
     completed |-> (DiscoverExit(res) = 0),
     found |-> DevicesFound(res)]

\* the command builds the parameters and enters discover_devices
DiscoverBegin(in) ==
    /\ scan.state \in {"Idle", "Complete", "Failed"}
    /\ scan' = [state |-> "Pending",
                params |-> DiscoveryParams(in.subnet, in.discovery_type,
                                           in.update_database),
                responders |-> {}]
    /\ UNCHANGED <<subnets, ledger, locked, pc, req, picked, snapshot, last>>

ScanStart ==
    /\ scan.state = "Pending"
    /\ scan' = [scan EXCEPT !.state = "Probing"]
    /\ UNCHANGED <<subnets, ledger, locked, pc, req, picked, snapshot, last>>

\* a malformed target fails the scan and the command; otherwise every
\* probed host answers or times out
ScanProbe ==
    /\ scan.state = "Probing"
    /\ IF InvalidTarget(scan.params)
       THEN /\ scan' = [scan EXCEPT !.state = "Failed"]
            /\ last' = DiscoverOutcome(scan.params, DiscoveryResult(scan'))
       ELSE /\ \E answered \in SUBSET (Observable \cap TargetRange(scan.params, subnets)) :
                 scan' = [scan EXCEPT !.state = "Aggregating",
                                      !.responders = answered]
            /\ UNCHANGED last
    /\ UNCHANGED <<subnets, ledger, locked, pc, req, picked, snapshot>>

\* the snapshot is complete; it is persisted on --update-database and the
\* command prints the result and ends
ScanAggregate ==
    /\ scan.state = "Aggregating"
    /\ scan' = [scan EXCEPT !.state = "Complete"]
    /\ snapshot' = IF scan.params.update_database THEN scan.responders ELSE snapshot
    /\ last' = DiscoverOutcome(scan.params, DiscoveryResult(scan'))
    /\ UNCHANGED <<subnets, ledger, locked, pc, req, picked>>

(***************************************************************************)
(* ConflictReconciler, from the design (section 4.4), and the              *)
(* check_conflicts command.  No prior identity of a device is retained, so *)
(* no Mismatch is flagged.                                                 *)
(***************************************************************************)
ConflictKind(a, led, snap) ==
    IF a \in ActiveAddresses(led) /\ a \notin snap THEN "Stale"
    ELSE IF a \notin ActiveAddresses(led) /\ a \in snap THEN "Rogue"
    ELSE "None"

\* the addresses in conflict, in ascending order, each with its kind
Reconcile(led, snap) ==
    LET bad == { a \in ActiveAddresses(led) \cup snap :
                   ConflictKind(a, led, snap) # "None" }
    IN  [i \in 1..Cardinality(bad) |->
           [ip_address |-> IpText(SortedSeq(bad)[i]),
            conflict_type |-> ConflictKind(SortedSeq(bad)[i], led, snap)]]

\* the result dictionary of IPAMManager.check_conflicts
ConflictsResult(led, snap) ==
    [success |-> TRUE, conflicts |-> Reconcile(led, snap), error |-> ""]

\* the branch on result.get('success')
ConflictsExit(res) == IF res.success THEN 0 ELSE 1

\* a table that loses its first row
ConflictRowsFirstDropped(res) ==
    IF res.success /\ res.conflicts # <<>> THEN Tail(res.conflicts) ELSE <<>>

\* the rows of the conflict table the command prints
ConflictRows(res) == IF res.success THEN res.conflicts ELSE <<>>

CheckConflicts ==
    /\ last' = [cmd |-> "check_conflicts",
                exit |-> ConflictsExit(ConflictsResult(ledger, snapshot)),
                conflicts |-> ConflictRows(ConflictsResult(ledger, snapshot))]
    /\ UNCHANGED <<subnets, ledger, locked, pc, req, picked, snapshot, scan>>

(***************************************************************************)
(* The allocation engine: subnets are created, addresses are allocated by  *)
(* concurrent invocations and deallocated.                                 *)
(***************************************************************************)
NoCommand == [cmd |-> "none", exit |-> 0]

Init ==
    /\ subnets = <<>>
    /\ ledger = <<>>
    /\ locked = {}
    /\ pc = [p \in Procs |-> "idle"]
    /\ req = [p \in Procs |-> NoRequest]
    /\ picked = [p \in Procs |-> 0]
    /\ snapshot = {}
    /\ scan = IdleScan
    /\ last = NoCommand

EngineNetworks ==
    { Cidr(<<10, 0, 0, 1>>, Prefix(29)),
      Cidr(<<10, 0, 0, 2>>, Prefix(30)),
      Cidr(<<10, 0, 0, 9>>, Prefix(30)),
      Cidr(<<10, 0, 0, 256>>, Prefix(24)) }

EngineGateways == { NoneOpt, Some(<<10, 0, 0, 2>>) }

Next ==
    \/ \E network \in EngineNetworks, name \in NameInputs,
          description \in DescriptionInputs, gateway \in EngineGateways :
          CreateSubnet(network, name, description, NoVlan, gateway)
    \/ \E p \in Procs, subnet \in SubnetArgs, in \in AllocInputs :
          AllocateReserve(p, subnet, in)
    \/ \E p \in Procs : AllocateRecord(p)
    \/ \E ip \in AddressInputs, answer \in ConfirmInputs :
          DeallocateIp(ip, answer.force, answer.confirmed)

Spec == Init /\ [][Next]_vars

(***************************************************************************)
(* Subnet creation alone, over every network, gateway and VLAN input.      *)
(***************************************************************************)
NextCreate ==
    \E network \in NetworkInputs, name \in NameInputs,
       description \in DescriptionInputs, vlan \in VlanInputs,
       gateway \in GatewayInputs :
       CreateSubnet(network, name, description, vlan, gateway)

SpecCreate == Init /\ [][NextCreate]_vars

(***************************************************************************)
(* Administration: the database is initialised and subnets are created.    *)
(***************************************************************************)
NextAdmin ==
    \/ NextCreate
    \/ \E argv \in InitArgvInputs, raises \in BOOLEAN :
          InitDatabase(argv, raises)

SpecAdmin == Init /\ [][NextAdmin]_vars

(***************************************************************************)
(* Concurrent allocation against one subnet: the subnet exists, the ledger *)
(* is empty, and the invocations only allocate.                            *)
(***************************************************************************)
\* the record create_subnet leaves for the first subnet
CreatedSubnet(network, gateway) ==
    SubnetRecord(SubnetData(ParseNetwork(network), "lan", NoneStr, NoVlan, gateway), 1)

ConcurrentSubnets ==
    { CreatedSubnet(n, g) :
        n \in { Cidr(<<10, 0, 0, 1>>, Prefix(29)), Cidr(<<10, 0, 0, 9>>, Prefix(30)) },
        g \in { NoneOpt, Some(<<10, 0, 0, 6>>) } }

InitConcurrent ==
    /\ subnets \in { <<s>> : s \in ConcurrentSubnets }
    /\ ledger = <<>>
    /\ locked = {}
    /\ pc = [p \in Procs |-> "idle"]
    /\ req = [p \in Procs |-> NoRequest]
    /\ picked = [p \in Procs |-> 0]
    /\ snapshot = {}
    /\ scan = IdleScan
    /\ last = NoCommand

NextConcurrent ==
    \/ \E p \in Procs, subnet \in SubnetArgs, in \in AllocInputs :
          AllocateReserve(p, subnet, in)
    \/ \E p \in Procs : AllocateRecord(p)

SpecConcurrent == InitConcurrent /\ [][NextConcurrent]_vars

(***************************************************************************)
(* Discovery and reconciliation: one subnet, a ledger left by a number of  *)
(* allocations, then scans, conflict checks and deallocations.             *)
(***************************************************************************)
DiscoverySubnet == CreatedSubnet(Cidr(<<10, 0, 0, 1>>, Prefix(29)), NoneOpt)

RECURSIVE Allocated(_)
\* the ledger after k allocate_ip invocations, one after the other
Allocated(k) ==
    IF k = 0 THEN <<>>
    ELSE LET led == Allocated(k - 1)
             data == AllocationData([kind |-> "id", id |-> 1, net |-> Cidr(<<>>, NoPrefix)],
                                    NoneStr, NoneStr, NoneStr, NoneStr, FALSE)
         IN  Append(led, AllocationRecord(k, Reserve(DiscoverySubnet, led, data), 1, data))

InitDiscovery ==
    /\ subnets = <<DiscoverySubnet>>
    /\ ledger \in { Allocated(k) : k \in 0..MaxAllocs }
    /\ locked = {}
    /\ pc = [p \in Procs |-> "idle"]
    /\ req = [p \in Procs |-> NoRequest]
    /\ picked = [p \in Procs |-> 0]
    /\ snapshot = {}
    /\ scan = IdleScan
    /\ last = NoCommand

NextDiscovery ==
    \/ \E in \in DiscoverInputs : DiscoverBegin(in)
    \/ ScanStart
    \/ ScanProbe
    \/ ScanAggregate
    \/ CheckConflicts
    \/ \E ip \in AddressInputs, answer \in ConfirmInputs :
          DeallocateIp(ip, answer.force, answer.confirmed)

SpecDiscovery == InitDiscovery /\ [][NextDiscovery]_vars

\* every probe has a timeout and a bounded retry count, so a scan that has
\* begun goes on to its end
SpecDiscoveryFair ==
    /\ SpecDiscovery
    /\ WF_vars(ScanStart) /\ WF_vars(ScanProbe) /\ WF_vars(ScanAggregate)

(***************************************************************************)
(* Properties.                                                             *)
(***************************************************************************)
\* the addresses of a stored subnet's range, from its network text
RangeOf(s) ==
    LET size == 2 ^ (32 - s.network.prefix.val)
        low == AddrOf(s.network.octets) - (AddrOf(s.network.octets) % size)
    IN  low .. (low + size - 1)

RangeLow(s) == SetMin(RangeOf(s))
RangeHigh(s) == RangeLow(s) + Cardinality(RangeOf(s)) - 1

\* C1: after any sequence of allocate_ip and deallocate_ip operations over
\* any set of subnets, no address has more than one active allocation, and
\* every active allocation's address lies inside its subnet's range and is
\* neither the network, the broadcast nor the gateway address.
C1_ActiveUniqueAndAllocatable ==
    /\ \A i, j \in 1..Len(ledger) :
          (i # j /\ ledger[i].status = "active" /\ ledger[j].status = "active")
             => ledger[i].address # ledger[j].address
    /\ \A i \in 1..Len(ledger) :
          ledger[i].status = "active" =>
             /\ ledger[i].subnet_id \in 1..Len(subnets)
             /\ LET s == subnets[ledger[i].subnet_id]
                    a == ledger[i].address
                IN  /\ a \in RangeOf(s)
                    /\ a # RangeLow(s)
                    /\ a # RangeHigh(s)
                    /\ IpText(a) # s.gateway

\* two subnets hold an active allocation each
C1_Witness ==
    /\ \E i, j \in 1..Len(ledger) :
          /\ ledger[i].status = "active" /\ ledger[j].status = "active"
          /\ ledger[i].subnet_id # ledger[j].subnet_id
    /\ last.cmd = "allocate_ip" /\ last.exit = 0

\* the allocatable addresses of a stored subnet, from its network text
PoolOf(s) ==
    { a \in RangeOf(s) :
        a # RangeLow(s) /\ a # RangeHigh(s) /\ IpText(a) # s.gateway }

\* C2: when N allocate_ip invocations run concurrently against the same
\* subnet, with N not larger than the number of free addresses, all N
\* succeed and the assigned addresses are pairwise distinct: no invocation
\* fails as exhausted while the pool has a free address, and no two
\* allocations, recorded or in flight, hold the same address.
C2_ConcurrentDistinct ==
    /\ \A i, j \in 1..Len(ledger) :
          i # j => ledger[i].address # ledger[j].address
    /\ \A p, q \in Procs :
          (p # q /\ pc[p] = "reserved" /\ pc[q] = "reserved")
             => picked[p] # picked[q]
    /\ \A p \in Procs, i \in 1..Len(ledger) :
          pc[p] = "reserved" => picked[p] # ledger[i].address
    /\ (last.cmd = "allocate_ip" /\ last.exit = 1 /\ last.subnet_id # 0)
          => Len(ledger) >= Cardinality(PoolOf(subnets[1]))
    /\ \A i \in 1..Len(ledger) : ledger[i].id = i /\ ledger[i].status = "active"

\* as many invocations as there are processes have succeeded against the
\* subnet, whose pool was large enough for all of them
C2_Witness ==
    /\ Len(ledger) = NProcs
    /\ Cardinality(PoolOf(subnets[1])) >= NProcs
    /\ last.cmd = "allocate_ip" /\ last.exit = 0
    /\ \A i \in 1..Len(ledger) : ledger[i].subnet_id = 1

\* the addresses of the network a well-formed CIDR input names
InputRange(network) ==
    LET p == IF network.prefix.some THEN network.prefix.val ELSE 32
        size == 2 ^ (32 - p)
        low == AddrOf(network.octets) - (AddrOf(network.octets) % size)
    IN  low .. (low + size - 1)

IntersectsExisting(network) ==
    \E i \in 1..Len(subnets) : InputRange(network) \cap RangeOf(subnets[i]) # {}

\* C3: create_subnet with a CIDR that intersects the CIDR of an existing
\* subnet is rejected with exit status 1, and the subnets and all
\* allocation state are the same after the call as before it.
C3_OverlapRejected ==
    [][\A network \in EngineNetworks \ MalformedNetworks, gateway \in EngineGateways :
          (/\ IntersectsExisting(network)
           /\ CreateSubnet(network, "lan", NoneStr, NoVlan, gateway))
          => /\ last'.exit = 1
             /\ ~last'.created
             /\ UNCHANGED <<subnets, ledger, locked, pc, req, picked>>]_vars

\* an overlapping creation was rejected while an address was allocated
C3_Witness ==
    /\ last.cmd = "create_subnet" /\ last.called /\ ~last.created
    /\ last.exit = 1
    /\ \E i \in 1..Len(ledger) : ledger[i].status = "active"

\* C4: create_subnet with a malformed network CIDR ends with exit status 1
\* without calling SubnetManager.create_subnet, and no subnet record is
\* created or changed.
C4_MalformedRejected ==
    [][\A network \in MalformedNetworks, vlan \in VlanInputs, gateway \in GatewayInputs :
          CreateSubnet(network, "lan", NoneStr, vlan, gateway)
          => /\ last'.exit = 1
             /\ ~last'.called
             /\ ~last'.created
             /\ UNCHANGED <<subnets, ledger>>]_vars

\* a malformed network was rejected while a subnet existed
C4_Witness ==
    /\ last.cmd = "create_subnet" /\ last.network \in MalformedNetworks
    /\ last.exit = 1 /\ ~last.called
    /\ Len(subnets) > 0

\* the prefix length of a well-formed CIDR input
InputPrefix(network) == IF network.prefix.some THEN network.prefix.val ELSE 32

\* C5: for every prefix length, the number of allocatable addresses
\* reported when the subnet is created is never negative: it is the subnet
\* size minus the network and broadcast addresses, floored at zero.
C5_AvailableFlooredAtZero ==
    (last.cmd = "create_subnet" /\ last.created) =>
        /\ last.available >= 0
        /\ last.available =
             IF 2 ^ (32 - InputPrefix(last.network)) >= 2
             THEN 2 ^ (32 - InputPrefix(last.network)) - 2
             ELSE 0

\* the gateway create_subnet is to store for a well-formed input
ExpectedGateway(network, gateway) ==
    IF gateway.some /\ gateway.text # <<>>
    THEN gateway.text
    ELSE LET low == SetMin(InputRange(network))
         IN  IF InputPrefix(network) >= 31 THEN IpText(low) ELSE IpText(low + 1)

\* C6: when create_subnet is called without a gateway, the gateway stored
\* for the subnet is the first host address of the normalised network; when
\* a gateway is given, that value is stored unchanged.
C6_GatewayStored ==
    [][\A network \in WellFormedNetworks, vlan \in VlanInputs, gateway \in GatewayInputs :
          (/\ CreateSubnet(network, "lan", NoneStr, vlan, gateway)
           /\ Len(subnets') = Len(subnets) + 1)
          => /\ subnets'[Len(subnets')].gateway = ExpectedGateway(network, gateway)
             /\ last'.gateway = ExpectedGateway(network, gateway)
             /\ subnets'[Len(subnets')].network.octets = IpText(SetMin(InputRange(network)))]_vars

\* a subnet given as 10.0.0.5/30 was stored with the default gateway
\* 10.0.0.5, and another with the gateway given on the command line
C6_Witness ==
    /\ \E i \in 1..Len(subnets) :
          /\ subnets[i].network = Cidr(<<10, 0, 0, 4>>, Prefix(30))
          /\ subnets[i].gateway = <<10, 0, 0, 5>>
    /\ \E i \in 1..Len(subnets) : subnets[i].gateway = <<10, 0, 0, 6>>
    /\ last.cmd = "create_subnet" /\ last.created

\* the free addresses of a stored subnet: its pool without the addresses
\* that hold an active allocation
FreeOf(s) ==
    PoolOf(s) \ { ledger[i].address :
                    i \in { k \in 1..Len(ledger) : ledger[k].status = "active" } }

\* the reservation of an invocation in flight is the lowest free address of
\* its subnet
PickedLowestFree(p) ==
    LET s == subnets[ResolveSubnet(req[p].subnet, subnets)]
    IN  /\ picked[p] \in FreeOf(s)
        /\ \A a \in FreeOf(s) : picked[p] <= a

ActiveNow == { ledger[i].address :
                 i \in { k \in 1..Len(ledger) : ledger[k].status = "active" } }

\* the number of rows of a conflict table for an address and a kind
RowCount(rows, a, kind) ==
    Cardinality({ i \in 1..Len(rows) :
                    rows[i].ip_address = IpText(a) /\ rows[i].conflict_type = kind })

\* C9: a conflict check yields, for every address, exactly one Stale
\* conflict when the address has an active allocation and no observed
\* device, exactly one Rogue conflict when a device is observed and there
\* is no active allocation, and no conflict for an address that has
\* neither; the check takes no input and does not change the ledger.
C9_StaleAndRogue ==
    [][CheckConflicts =>
         /\ last'.cmd = "check_conflicts" /\ last'.exit = 0
         /\ UNCHANGED <<subnets, ledger, snapshot>>
         /\ \A a \in RangeOf(subnets[1]) \cup Observable :
               /\ (a \in ActiveNow /\ a \notin snapshot)
                     => /\ RowCount(last'.conflicts, a, "Stale") = 1
                        /\ RowCount(last'.conflicts, a, "Rogue") = 0
               /\ (a \notin ActiveNow /\ a \in snapshot)
                     => /\ RowCount(last'.conflicts, a, "Rogue") = 1
                        /\ RowCount(last'.conflicts, a, "Stale") = 0
               /\ (a \notin ActiveNow /\ a \notin snapshot)
                     => \A i \in 1..Len(last'.conflicts) :
                           last'.conflicts[i].ip_address # IpText(a)]_vars

\* a check reported a stale allocation and a rogue device side by side
C9_Witness ==
    /\ last.cmd = "check_conflicts"
    /\ \E i, j \in 1..Len(last.conflicts) :
          /\ last.conflicts[i].conflict_type = "Stale"
          /\ last.conflicts[j].conflict_type = "Rogue"

\* the target of the scan is absent or a well-formed network
WellFormedTarget ==
    ~scan.params.subnet.some \/ scan.params.subnet.net \in WellFormedNetworks

\* C10: a discovery scan with a well-formed target in which no host
\* answers any probe ends in the Complete state with a snapshot of zero
\* devices and is reported as a success (completed, 0 devices, exit status
\* 0); the scan never reaches Failed because of unreachable hosts.
C10_EmptyScanCompletes ==
    /\ [](scan.state = "Failed" => ~WellFormedTarget)
    /\ [][(scan.state = "Probing" /\ WellFormedTarget)
             => scan'.state \in {"Probing", "Aggregating"}]_vars
    /\ [][(scan.state = "Aggregating" /\ scan.responders = {}
              /\ scan'.state # "Aggregating")
             => /\ scan'.state = "Complete"
                /\ last'.cmd = "discover"
                /\ last'.exit = 0
                /\ last'.completed
                /\ last'.found = 0
                /\ (scan.params.update_database => snapshot' = {})]_vars
    /\ (scan.state = "Pending" /\ WellFormedTarget) ~> (scan.state = "Complete")

\* a scan of a range with hosts in it got no answer and was reported as
\* completed with 0 devices
C10_Witness ==
    /\ scan.state = "Complete"
    /\ scan.responders = {}
    /\ scan.params.subnet.some
    /\ Observable \cap InputRange(scan.params.subnet.net) # {}
    /\ last.cmd = "discover" /\ last.exit = 0 /\ last.found = 0

\* C11: the init-database command calls the database initialisation
\* routine imported from smart_ipam.utils.database exactly once, prints the
\* success message exactly when the routine returned without raising, and
\* exits with status 1 when it raised.
C11_RoutineCalledOnce ==
    last.cmd = "init_database"
       => /\ last.routine_calls = 1
          /\ last.success_printed <=> ~last.raised
          /\ last.raised => last.exit = 1

\* an active allocation holds the address text
HasActive(ip) ==
    \E i \in 1..Len(ledger) :
       ledger[i].status = "active" /\ IpText(ledger[i].address) = ip

\* C12: deallocate_ip without --force changes nothing unless the user
\* confirms: when the confirmation is declined, IPAMManager.deallocate_ip
\* is not called and the ledger and the pool are unchanged; and a
\* deallocation attempted on an address with no active allocation fails
\* with NotActive and exit status 1 and leaves the ledger and the pool
\* unchanged.
C12_DeclinedOrNotActiveUnchanged ==
    [][\A ip \in AddressInputs, answer \in ConfirmInputs :
          DeallocateIp(ip, answer.force, answer.confirmed) =>
             /\ last'.cmd = "deallocate_ip"
             /\ (~answer.force /\ ~answer.confirmed)
                   => /\ ~last'.called
                      /\ ledger' = ledger
                      /\ subnets' = subnets
                      /\ \A k \in 1..Len(subnets) :
                            FreeOf(subnets[k])' = FreeOf(subnets[k])
             /\ ((answer.force \/ answer.confirmed) /\ ~HasActive(ip))
                   => /\ last'.called
                      /\ last'.exit = 1
                      /\ last'.error = "NotActive"
                      /\ ledger' = ledger
                      /\ subnets' = subnets
                      /\ \A k \in 1..Len(subnets) :
                            FreeOf(subnets[k])' = FreeOf(subnets[k])]_vars

\* an address was deallocated and a second deallocation of it failed as
\* NotActive while another allocation stayed active
C12_Witness ==
    /\ last.cmd = "deallocate_ip"
    /\ last.called
    /\ last.exit = 1
    /\ last.error = "NotActive"
    /\ \E i \in 1..Len(ledger) :
          /\ ledger[i].status = "released"
          /\ IpText(ledger[i].address) = last.ip_address
    /\ ~HasActive(last.ip_address)
    /\ \E j \in 1..Len(ledger) : ledger[j].status = "active"

====
